---- MODULE Spec2Model ----
(***************************************************************************)
(* Model of src/util.rs: HdfsUtil::copy and HdfsUtil::mv, the two          *)
(* pass-through operations over the native hdfsCopy / hdfsMove entry       *)
(* points.  A call is followed statement by statement: the two CString     *)
(* conversions (each unwrapped), the evaluation of the four arguments, the *)
(* blocking native call, the end of the unsafe block (where the CStrings   *)
(* are dropped) and the mapping of the status to the Result.               *)
(***************************************************************************)
EXTENDS Integers, Sequences, FiniteSets, TLC

\* ---------------------------------------------------------------- bounds
\* Longest path string handed to copy / mv.
MaxLen == 2

\* ------------------------------------------------------------ input sets
\* The bytes a path is made of: NUL and 'a'.
Bytes == {0, 97}

\* The two filesystems of the tests: file://... and the mini-DFS.
FS == {"local", "hdfs"}

\* Non-zero status codes (c_int) the native entry points may hand back.
FailStatus == {-2147483647 - 1, -1, 1, 2147483647}

SeqsUpTo(n) == UNION {[1..k -> Bytes] : k \in 0..n}

\* Every &str the caller can pass, up to MaxLen bytes: the empty string and
\* strings holding NUL bytes included.
Paths == SeqsUpTo(MaxLen)

HasNul(s) == \E i \in 1..Len(s) : s[i] = 0

\* Paths a filesystem namespace can hold: not empty, no NUL byte.
FilePaths == {p \in Paths : Len(p) > 0 /\ ~HasNul(p)}

\* ------------------------------------------------------- pure operations
\* Variant: cuts the string at its first NUL byte instead of refusing it.
CStringNew_truncating(s) ==
  [ok |-> TRUE,
   bytes |-> Append(IF HasNul(s)
                      THEN SubSeq(s, 1, (CHOOSE i \in 1..Len(s) :
                                           s[i] = 0 /\ \A j \in 1..(i - 1) : s[j] # 0) - 1)
                      ELSE s, 0)]

\* CString::new(s): Err(NulError) when s has an interior NUL byte, else the
\* bytes of s followed by the terminating NUL.
CStringNew(s) ==
  IF HasNul(s) THEN [ok |-> FALSE, bytes |-> <<>>]
               ELSE [ok |-> TRUE, bytes |-> Append(s, 0)]

\* Index of the first NUL byte of a buffer (0 when there is none).
FirstNul(b) ==
  IF HasNul(b) THEN CHOOSE i \in 1..Len(b) : b[i] = 0 /\ \A j \in 1..(i - 1) : b[j] # 0
               ELSE 0

\* The string the native side reads through a const char*: the bytes before
\* the first NUL.
ReadCStr(b) == IF FirstNul(b) = 0 THEN b ELSE SubSeq(b, 1, FirstNul(b) - 1)

\* HdfsFs::raw(): the native handle of a filesystem object.
raw(h) == h

NoBuf == [state |-> "none", bytes |-> <<>>]
NoArgs == [src_fs |-> "none", src |-> <<>>, dst_fs |-> "none", dst |-> <<>>]
NoNative == [entry |-> "none", srcFS |-> "none", src |-> <<>>, dstFS |-> "none", dst |-> <<>>]
NoHist == [stage |-> 0, args |-> NoArgs]

VARIABLES
  files,        \* files[fs]: the paths that exist on filesystem fs
  handles,      \* handles[fs]: state of the HdfsFs handle of fs
  pc,           \* position of the running call ("idle" when none)
  fn,           \* the running operation: "copy", "mv" or "none"
  args,         \* its four arguments
  cstr_src,     \* the CString built from src: [state, bytes]
  cstr_dst,     \* the CString built from dst
  native,       \* what the native entry point received
  nativeCalls,  \* native calls made by the running call
  res,          \* the native status
  result,       \* what the caller gets: Ok(true), Err(Unknown), or a panic
  pre,          \* files when the call started
  hist,         \* history: last successful copy and whether its dst was deleted
  scenario      \* history: the running mv follows copy, delete dst

vars == <<files, handles, pc, fn, args, cstr_src, cstr_dst, native, nativeCalls,
          res, result, pre, hist, scenario>>

Init ==
  /\ files = [f \in FS |-> {}]
  /\ handles = [f \in FS |-> "connected"]
  /\ pc = "idle"
  /\ fn = "none"
  /\ args = NoArgs
  /\ cstr_src = NoBuf
  /\ cstr_dst = NoBuf
  /\ native = NoNative
  /\ nativeCalls = 0
  /\ res = 0
  /\ result = "none"
  /\ pre = [f \in FS |-> {}]
  /\ hist = NoHist
  /\ scenario = FALSE

\* ------------------------------------------------ the native entry points
\* What a read through a const char* yields: the C string of a live buffer;
\* any bytes at all when the buffer was already released (dangling pointer).
Deref(buf) == IF buf.state = "live" THEN {ReadCStr(buf.bytes)} ELSE FilePaths \cup {<<>>}

\* hdfsCopy / hdfsMove succeed when both handles are connected, the source
\* path exists on the source filesystem, the destination is a usable path and
\* the transfer is not of a path onto itself.
NativeOk(n) ==
  /\ handles[n.srcFS] = "connected"
  /\ handles[n.dstFS] = "connected"
  /\ n.src \in files[n.srcFS]
  /\ n.dst \in FilePaths
  /\ ~(n.srcFS = n.dstFS /\ n.src = n.dst)

\* The namespace after a successful transfer: the destination exists; the
\* source is gone when the entry point is hdfsMove (deleteSource).
NativeFiles(n) ==
  LET added == [files EXCEPT ![n.dstFS] = @ \cup {n.dst}]
  IN  IF n.entry = "hdfsMove" THEN [added EXCEPT ![n.srcFS] = @ \ {n.src}] ELSE added

\* The blocking native call runs to completion and hands back its status.
hdfs_native ==
  /\ pc = "in_native"
  /\ IF NativeOk(native)
       THEN files' = NativeFiles(native) /\ res' = 0
       ELSE files' = files /\ res' \in FailStatus
  /\ pc' = "drop"
  /\ UNCHANGED <<handles, fn, args, cstr_src, cstr_dst, native, nativeCalls, result,
                 pre, hist, scenario>>

\* --------------------------------------------------------- HdfsUtil::copy
\* A caller invokes copy(src_fs, src, dst_fs, dst).
copy ==
  /\ pc = "idle"
  /\ \E sf \in FS, df \in FS, s \in Paths, d \in Paths :
       args' = [src_fs |-> sf, src |-> s, dst_fs |-> df, dst |-> d]
  /\ fn' = "copy"
  /\ pc' = "cstr_src"
  /\ pre' = files
  /\ scenario' = FALSE
  /\ hist' = NoHist
  /\ UNCHANGED <<files, handles, cstr_src, cstr_dst, native, nativeCalls, res, result>>

\* Variant: CString::new(src).unwrap().as_ptr(), the temporary CString is
\* released at the end of the statement and the pointer dangles.
copy_cstr_src_temporary ==
  /\ pc = "cstr_src" /\ fn = "copy"
  /\ LET c == CStringNew(args.src)
     IN  IF c.ok
           THEN /\ cstr_src' = [state |-> "freed", bytes |-> c.bytes]
                /\ pc' = "cstr_dst"
                /\ result' = result
           ELSE /\ cstr_src' = cstr_src
                /\ pc' = "done"
                /\ result' = "panic"
  /\ UNCHANGED <<files, handles, fn, args, cstr_dst, native, nativeCalls, res, pre,
                 hist, scenario>>

\* let cstr_src = CString::new(src).unwrap();
copy_cstr_src ==
  /\ pc = "cstr_src" /\ fn = "copy"
  /\ LET c == CStringNew(args.src)
     IN  IF c.ok
           THEN /\ cstr_src' = [state |-> "live", bytes |-> c.bytes]
                /\ pc' = "cstr_dst"
                /\ result' = result
           ELSE /\ cstr_src' = cstr_src
                /\ pc' = "done"
                /\ result' = "panic"
  /\ UNCHANGED <<files, handles, fn, args, cstr_dst, native, nativeCalls, res, pre,
                 hist, scenario>>

\* Variant: a failed conversion of dst is reported as Err(HdfsErr::Unknown)
\* instead of panicking.
copy_cstr_dst_err ==
  /\ pc = "cstr_dst" /\ fn = "copy"
  /\ LET c == CStringNew(args.dst)
     IN  IF c.ok
           THEN /\ cstr_dst' = [state |-> "live", bytes |-> c.bytes]
                /\ cstr_src' = cstr_src
                /\ pc' = "call"
                /\ result' = result
           ELSE /\ cstr_dst' = cstr_dst
                /\ cstr_src' = [cstr_src EXCEPT !.state = "freed"]
                /\ pc' = "done"
                /\ result' = "Err(Unknown)"
  /\ UNCHANGED <<files, handles, fn, args, native, nativeCalls, res, pre, hist, scenario>>

\* let cstr_dst = CString::new(dst).unwrap();  a panic unwinds and drops cstr_src.
copy_cstr_dst ==
  /\ pc = "cstr_dst" /\ fn = "copy"
  /\ LET c == CStringNew(args.dst)
     IN  IF c.ok
           THEN /\ cstr_dst' = [state |-> "live", bytes |-> c.bytes]
                /\ cstr_src' = cstr_src
                /\ pc' = "call"
                /\ result' = result
           ELSE /\ cstr_dst' = cstr_dst
                /\ cstr_src' = [cstr_src EXCEPT !.state = "freed"]
                /\ pc' = "done"
                /\ result' = "panic"
  /\ UNCHANGED <<files, handles, fn, args, native, nativeCalls, res, pre, hist, scenario>>

\* Variant: copy calls the move entry point.
copy_hdfsCopy_moves ==
  /\ pc = "call" /\ fn = "copy"
  /\ \E s \in Deref(cstr_src), d \in Deref(cstr_dst) :
       native' = [entry |-> "hdfsMove", srcFS |-> raw(args.src_fs), src |-> s,
                  dstFS |-> raw(args.dst_fs), dst |-> d]
  /\ nativeCalls' = nativeCalls + 1
  /\ pc' = "in_native"
  /\ UNCHANGED <<files, handles, fn, args, cstr_src, cstr_dst, res, result, pre,
                 hist, scenario>>

\* hdfsCopy(src_fs.raw(), cstr_src.as_ptr(), dst_fs.raw(), cstr_dst.as_ptr())
copy_hdfsCopy ==
  /\ pc = "call" /\ fn = "copy"
  /\ \E s \in Deref(cstr_src), d \in Deref(cstr_dst) :
       native' = [entry |-> "hdfsCopy", srcFS |-> raw(args.src_fs), src |-> s,
                  dstFS |-> raw(args.dst_fs), dst |-> d]
  /\ nativeCalls' = nativeCalls + 1
  /\ pc' = "in_native"
  /\ UNCHANGED <<files, handles, fn, args, cstr_src, cstr_dst, res, result, pre,
                 hist, scenario>>

\* Variant: a non-zero status is retried once before the block ends.
copy_drop_retry ==
  /\ pc = "drop" /\ fn = "copy"
  /\ IF res # 0 /\ nativeCalls < 2
       THEN /\ pc' = "call"
            /\ UNCHANGED <<cstr_src, cstr_dst>>
       ELSE /\ cstr_dst' = [cstr_dst EXCEPT !.state = "freed"]
            /\ cstr_src' = [cstr_src EXCEPT !.state = "freed"]
            /\ pc' = "map"
  /\ UNCHANGED <<files, handles, fn, args, native, nativeCalls, res, result, pre,
                 hist, scenario>>

\* End of the unsafe block: cstr_dst and cstr_src go out of scope.
copy_drop ==
  /\ pc = "drop" /\ fn = "copy"
  /\ cstr_dst' = [cstr_dst EXCEPT !.state = "freed"]
  /\ cstr_src' = [cstr_src EXCEPT !.state = "freed"]
  /\ pc' = "map"
  /\ UNCHANGED <<files, handles, fn, args, native, nativeCalls, res, result, pre,
                 hist, scenario>>

\* Variant: only a negative status is taken for a failure.
copy_status_negative(r) == IF r >= 0 THEN "Ok(true)" ELSE "Err(Unknown)"

\* if res == 0 { Ok(true) } else { Err(HdfsErr::Unknown) }
copy_status(r) == IF r = 0 THEN "Ok(true)" ELSE "Err(Unknown)"

copy_result ==
  /\ pc = "map" /\ fn = "copy"
  /\ result' = copy_status(res)
  /\ pc' = "done"
  /\ hist' = IF result' = "Ok(true)" THEN [stage |-> 1, args |-> args] ELSE NoHist
  /\ UNCHANGED <<files, handles, fn, args, cstr_src, cstr_dst, native, nativeCalls,
                 res, pre, scenario>>

\* ----------------------------------------------------------- HdfsUtil::mv
\* A caller invokes mv(src_fs, src, dst_fs, dst).
mv ==
  /\ pc = "idle"
  /\ \E sf \in FS, df \in FS, s \in Paths, d \in Paths :
       args' = [src_fs |-> sf, src |-> s, dst_fs |-> df, dst |-> d]
  /\ fn' = "mv"
  /\ pc' = "cstr_src"
  /\ pre' = files
  /\ scenario' = (hist.stage = 2 /\ hist.args = args')
  /\ hist' = NoHist
  /\ UNCHANGED <<files, handles, cstr_src, cstr_dst, native, nativeCalls, res, result>>

\* let cstr_src = CString::new(src).unwrap();
mv_cstr_src ==
  /\ pc = "cstr_src" /\ fn = "mv"
  /\ LET c == CStringNew(args.src)
     IN  IF c.ok
           THEN /\ cstr_src' = [state |-> "live", bytes |-> c.bytes]
                /\ pc' = "cstr_dst"
                /\ result' = result
           ELSE /\ cstr_src' = cstr_src
                /\ pc' = "done"
                /\ result' = "panic"
  /\ UNCHANGED <<files, handles, fn, args, cstr_dst, native, nativeCalls, res, pre,
                 hist, scenario>>

\* let cstr_dst = CString::new(dst).unwrap();  a panic unwinds and drops cstr_src.
mv_cstr_dst ==
  /\ pc = "cstr_dst" /\ fn = "mv"
  /\ LET c == CStringNew(args.dst)
     IN  IF c.ok
           THEN /\ cstr_dst' = [state |-> "live", bytes |-> c.bytes]
                /\ cstr_src' = cstr_src
                /\ pc' = "call"
                /\ result' = result
           ELSE /\ cstr_dst' = cstr_dst
                /\ cstr_src' = [cstr_src EXCEPT !.state = "freed"]
                /\ pc' = "done"
                /\ result' = "panic"
  /\ UNCHANGED <<files, handles, fn, args, native, nativeCalls, res, pre, hist, scenario>>

\* Variant: mv calls the copy entry point.
mv_hdfsMove_copies ==
  /\ pc = "call" /\ fn = "mv"
  /\ \E s \in Deref(cstr_src), d \in Deref(cstr_dst) :
       native' = [entry |-> "hdfsCopy", srcFS |-> raw(args.src_fs), src |-> s,
                  dstFS |-> raw(args.dst_fs), dst |-> d]
  /\ nativeCalls' = nativeCalls + 1
  /\ pc' = "in_native"
  /\ UNCHANGED <<files, handles, fn, args, cstr_src, cstr_dst, res, result, pre,
                 hist, scenario>>

\* Variant: source and destination are passed in each other's place.
mv_hdfsMove_swapped ==
  /\ pc = "call" /\ fn = "mv"
  /\ \E s \in Deref(cstr_src), d \in Deref(cstr_dst) :
       native' = [entry |-> "hdfsMove", srcFS |-> raw(args.dst_fs), src |-> d,
                  dstFS |-> raw(args.src_fs), dst |-> s]
  /\ nativeCalls' = nativeCalls + 1
  /\ pc' = "in_native"
  /\ UNCHANGED <<files, handles, fn, args, cstr_src, cstr_dst, res, result, pre,
                 hist, scenario>>

\* hdfsMove(src_fs.raw(), cstr_src.as_ptr(), dst_fs.raw(), cstr_dst.as_ptr())
mv_hdfsMove ==
  /\ pc = "call" /\ fn = "mv"
  /\ \E s \in Deref(cstr_src), d \in Deref(cstr_dst) :
       native' = [entry |-> "hdfsMove", srcFS |-> raw(args.src_fs), src |-> s,
                  dstFS |-> raw(args.dst_fs), dst |-> d]
  /\ nativeCalls' = nativeCalls + 1
  /\ pc' = "in_native"
  /\ UNCHANGED <<files, handles, fn, args, cstr_src, cstr_dst, res, result, pre,
                 hist, scenario>>

\* Variant: the source handle is disconnected when the block ends.
mv_drop_disconnects ==
  /\ pc = "drop" /\ fn = "mv"
  /\ cstr_dst' = [cstr_dst EXCEPT !.state = "freed"]
  /\ cstr_src' = [cstr_src EXCEPT !.state = "freed"]
  /\ handles' = [handles EXCEPT ![args.src_fs] = "closed"]
  /\ pc' = "map"
  /\ UNCHANGED <<files, fn, args, native, nativeCalls, res, result, pre, hist, scenario>>

\* End of the unsafe block: cstr_dst and cstr_src go out of scope.
mv_drop ==
  /\ pc = "drop" /\ fn = "mv"
  /\ cstr_dst' = [cstr_dst EXCEPT !.state = "freed"]
  /\ cstr_src' = [cstr_src EXCEPT !.state = "freed"]
  /\ pc' = "map"
  /\ UNCHANGED <<files, handles, fn, args, native, nativeCalls, res, result, pre,
                 hist, scenario>>

\* Variant: the success value is the comparison res != 0.
mv_status_flag(r) == IF r = 0 THEN "Ok(false)" ELSE "Err(Unknown)"

\* if res == 0 { Ok(true) } else { Err(HdfsErr::Unknown) }
mv_status(r) == IF r = 0 THEN "Ok(true)" ELSE "Err(Unknown)"

mv_result ==
  /\ pc = "map" /\ fn = "mv"
  /\ result' = mv_status(res)
  /\ pc' = "done"
  /\ UNCHANGED <<files, handles, fn, args, cstr_src, cstr_dst, native, nativeCalls,
                 res, pre, hist, scenario>>

\* ------------------------------------------------------------ the caller
\* The call is over (returned or unwound); its locals are gone.
Return ==
  /\ pc = "done"
  /\ pc' = "idle"
  /\ fn' = "none"
  /\ args' = NoArgs
  /\ cstr_src' = NoBuf
  /\ cstr_dst' = NoBuf
  /\ native' = NoNative
  /\ nativeCalls' = 0
  /\ res' = 0
  /\ result' = "none"
  /\ pre' = files
  /\ scenario' = FALSE
  /\ UNCHANGED <<files, handles, hist>>

\* Between calls the tests create a file (tempfile, HdfsFs::create) ...
create ==
  /\ pc = "idle"
  /\ \E f \in FS, p \in FilePaths :
       /\ p \notin files[f]
       /\ files' = [files EXCEPT ![f] = @ \cup {p}]
  /\ pre' = files'
  /\ hist' = NoHist
  /\ UNCHANGED <<handles, pc, fn, args, cstr_src, cstr_dst, native, nativeCalls, res,
                 result, scenario>>

\* ... or delete one (HdfsFs::delete, fs::remove_file).
delete ==
  /\ pc = "idle"
  /\ \E f \in FS, p \in FilePaths :
       /\ p \in files[f]
       /\ files' = [files EXCEPT ![f] = @ \ {p}]
       /\ hist' = IF hist.stage = 1 /\ hist.args.dst_fs = f /\ hist.args.dst = p
                    THEN [hist EXCEPT !.stage = 2] ELSE NoHist
  /\ pre' = files'
  /\ UNCHANGED <<handles, pc, fn, args, cstr_src, cstr_dst, native, nativeCalls, res,
                 result, scenario>>

Next ==
  \/ copy \/ copy_cstr_src \/ copy_cstr_dst \/ copy_hdfsCopy \/ copy_drop \/ copy_result
  \/ mv \/ mv_cstr_src \/ mv_cstr_dst \/ mv_hdfsMove \/ mv_drop \/ mv_result
  \/ hdfs_native \/ Return \/ create \/ delete

Spec == Init /\ [][Next]_vars

TypeOK ==
  /\ files \in [FS -> SUBSET FilePaths]
  /\ pc \in {"idle", "cstr_src", "cstr_dst", "call", "in_native", "drop", "map", "done"}
  /\ fn \in {"none", "copy", "mv"}
  /\ result \in {"none", "Ok(true)", "Ok(false)", "Err(Unknown)", "panic"}
  /\ nativeCalls \in Nat

\* ================================================================ claims
Ended == pc = "done"
NulFree == ~HasNul(args.src) /\ ~HasNul(args.dst)
Connected == \A f \in FS : handles[f] = "connected"
SrcExisted == args.src \in pre[args.src_fs]

\* A destination the native side can create: not empty, no NUL byte.
DstUsable == Len(args.dst) > 0 /\ ~HasNul(args.dst)

\* C1 as stated: a copy between two distinct, connected handles of a source
\* path that exists returns Ok(true), whatever the destination string; after
\* it the destination exists on dst_fs and the source still exists on src_fs.
C1_Original ==
  (Ended /\ fn = "copy" /\ args.src_fs # args.dst_fs /\ Connected /\ SrcExisted)
    => /\ result = "Ok(true)"
       /\ args.dst \in files[args.dst_fs]
       /\ args.src \in files[args.src_fs]

\* C1 amended: a copy between two distinct, connected handles of a source
\* path that exists, to a destination path that is not empty and holds no NUL
\* byte, returns Ok(true); after it the destination exists on dst_fs and the
\* source still exists on src_fs.  With a NUL byte in the destination the call
\* panics, and the source still exists.
C1_CopyKeepsSource ==
  (Ended /\ fn = "copy" /\ args.src_fs # args.dst_fs /\ Connected /\ SrcExisted)
    => /\ args.src \in files[args.src_fs]
       /\ DstUsable => (result = "Ok(true)" /\ args.dst \in files[args.dst_fs])
       /\ HasNul(args.dst) => (result = "panic" /\ files = pre)

C1_Witness ==
  /\ Ended /\ fn = "copy" /\ result = "Ok(true)"
  /\ args.src_fs = "local" /\ args.dst_fs = "hdfs"
  /\ SrcExisted /\ args.dst \notin pre["hdfs"]
  /\ args.dst \in files["hdfs"] /\ args.src \in files["local"]

\* C2 as stated: a mv between two distinct, connected handles of a source
\* path that exists returns Ok(true), whatever the destination string; after
\* it the destination exists on dst_fs and the source no longer exists on
\* src_fs; also when the mv follows a copy with the same arguments whose
\* destination was deleted in between.
C2_Original ==
  (Ended /\ fn = "mv" /\ args.src_fs # args.dst_fs /\ Connected
     /\ (SrcExisted \/ scenario))
    => /\ result = "Ok(true)"
       /\ args.dst \in files[args.dst_fs]
       /\ args.src \notin files[args.src_fs]

\* C2 amended: a mv between two distinct, connected handles of a source path
\* that exists, to a destination path that is not empty and holds no NUL byte,
\* returns Ok(true); after it the destination exists on dst_fs and the source
\* no longer exists on src_fs.  With a NUL byte in the destination the call
\* panics and the source stays.  A mv that follows a copy with the same
\* arguments whose destination was deleted in between always succeeds so.
C2_MvRemovesSource ==
  /\ (Ended /\ fn = "mv" /\ args.src_fs # args.dst_fs /\ Connected /\ SrcExisted)
       => /\ DstUsable => /\ result = "Ok(true)"
                          /\ args.dst \in files[args.dst_fs]
                          /\ args.src \notin files[args.src_fs]
          /\ HasNul(args.dst) => (result = "panic" /\ files = pre)
  /\ (Ended /\ fn = "mv" /\ args.src_fs # args.dst_fs /\ Connected /\ scenario)
       => /\ result = "Ok(true)"
          /\ args.dst \in files[args.dst_fs]
          /\ args.src \notin files[args.src_fs]

C2_Witness ==
  /\ Ended /\ fn = "mv" /\ scenario /\ result = "Ok(true)"
  /\ args.src_fs = "local" /\ args.dst_fs = "hdfs"
  /\ args.dst \notin pre["hdfs"] /\ args.src \in pre["local"]
  /\ args.dst \in files["hdfs"] /\ args.src \notin files["local"]

\* C3: a call whose native entry point handed back a non-zero status, of
\* either sign, ends with Err(HdfsErr::Unknown).
C3_NonZeroIsUnknown ==
  (Ended /\ nativeCalls > 0 /\ res # 0) => result = "Err(Unknown)"

C3_Witness ==
  Ended /\ nativeCalls = 1 /\ res > 0 /\ fn = "copy" /\ result = "Err(Unknown)"

\* C4: a call with a NUL byte in its source or destination path stops at
\* the conversion (it panics), never enters the native entry point and leaves
\* the filesystems as they were.
C4_NulStopsBeforeNative ==
  (fn # "none" /\ ~NulFree)
    => /\ pc \in {"cstr_src", "cstr_dst", "done"}
       /\ nativeCalls = 0
       /\ native = NoNative
       /\ files = pre
       /\ (Ended => result = "panic")

C4_Witness ==
  /\ Ended /\ result = "panic" /\ nativeCalls = 0
  /\ ~HasNul(args.src) /\ HasNul(args.dst)
  /\ args.src \in files[args.src_fs]

\* C5 as stated: every call, for every pair of path strings, ends with a
\* success value or the generic failure value.
C5_Original == Ended => result \in {"Ok(true)", "Ok(false)", "Err(Unknown)"}

\* C5 amended: a call whose two paths hold no NUL byte ends with a success
\* value or the generic failure value; a call with a NUL byte in a path
\* panics and hands the caller no value.
C5_TwoOutcomesOrPanic ==
  Ended => IF NulFree THEN result \in {"Ok(true)", "Ok(false)", "Err(Unknown)"}
                      ELSE result = "panic"

C5_Witness ==
  Ended /\ fn = "copy" /\ ~HasNul(args.src) /\ HasNul(args.dst) /\ result = "panic"

\* C6: Ok(false) is never the outcome of a call, and a zero status of the
\* native entry point yields Ok(true).
C6_SuccessIsTrue ==
  /\ result # "Ok(false)"
  /\ (Ended /\ nativeCalls > 0 /\ res = 0) => result = "Ok(true)"

C6_Witness ==
  Ended /\ fn = "mv" /\ nativeCalls = 1 /\ res = 0 /\ result = "Ok(true)"

\* C7: a call enters the native layer at most once, exactly once when both
\* paths converted, also after a non-zero status.
C7_OneNativeCall ==
  /\ nativeCalls <= 1
  /\ (Ended /\ NulFree) => nativeCalls = 1
  /\ (pc \in {"in_native", "drop", "map"}) => nativeCalls = 1

C7_Witness ==
  Ended /\ fn = "copy" /\ res # 0 /\ result = "Err(Unknown)" /\ nativeCalls = 1

\* C8: both handles stay connected through every call, whatever its exit,
\* and serve further calls.
C8_HandlesUntouched == Connected

C8_Witness ==
  /\ Ended /\ fn = "mv" /\ scenario /\ result = "Ok(true)"
  /\ handles[args.src_fs] = "connected" /\ handles[args.dst_fs] = "connected"

\* C9: both path buffers are live when the native arguments are evaluated and
\* for as long as the native call runs, and neither is live once the block is
\* over, the unwinding from a failed conversion of dst included.
C9_BuffersScoped ==
  /\ (pc \in {"call", "in_native", "drop"})
       => (cstr_src.state = "live" /\ cstr_dst.state = "live")
  /\ (pc \in {"map", "done", "idle"})
       => (cstr_src.state # "live" /\ cstr_dst.state # "live")

C9_Witness ==
  /\ Ended /\ result = "panic" /\ HasNul(args.dst)
  /\ cstr_src.state = "freed" /\ cstr_dst.state = "none"

\* C10: the native entry point of a call is hdfsCopy for copy and hdfsMove
\* for mv, and it receives the caller's source handle, source path,
\* destination handle and destination path, in that order, byte for byte.
C10_FaithfulDelegation ==
  nativeCalls > 0
    => native = [entry |-> IF fn = "copy" THEN "hdfsCopy" ELSE "hdfsMove",
                 srcFS |-> args.src_fs, src |-> args.src,
                 dstFS |-> args.dst_fs, dst |-> args.dst]

C10_Witness ==
  /\ pc = "in_native" /\ fn = "mv"
  /\ args.src_fs # args.dst_fs /\ args.src # args.dst /\ Len(args.src) > 1
  /\ native.src = args.src /\ native.dst = args.dst

====
